---- MODULE Spec2Model ----
(***************************************************************************)
(* Parallel summation benchmark (src/main.cpp): the chunk partitioning of  *)
(* the spawn loops, the raw-thread strategies atomic_sum and reduce_sum,   *)
(* the ThreadPool class and the pooled strategy threadpool_sum.            *)
(*                                                                         *)
(* Threads are interleaved at the granularity of their shared accesses:    *)
(* one step per atomic operation, per mutex acquisition and per critical   *)
(* section.  A worker's summation loop over elements of the vector reads   *)
(* only the immutable input and writes only that worker's accumulator: it  *)
(* is one step.                                                            *)
(***************************************************************************)
EXTENDS Integers, Sequences, FiniteSets

\* ------------------------------------------------------------------ bounds
MaxN == 3
MaxT == 2
MaxTasks == 3
MaxPartN == 12
MaxPartT == 20

\* main: if (numThreads == 0) numThreads = 2;
DefaultThreads == 2

\* benchmark_workload_scaling: if (numThreads == 0) numThreads = 4;
DefaultWorkloadThreads == 4

\* std::vector<unsigned int> threadCounts = {1, 2, 4, 8, 12, 16};
threadCounts == << 1, 2, 4, 8, 12, 16 >>

\* std::vector<size_t> workloadSizes = {1000000, 5000000, 10000000, 50000000, 100000000};
workloadSizes == << 1000000, 5000000, 10000000, 50000000, 100000000 >>

\* the value a read past the end of the vector yields when the read does
\* not fault: whatever bytes lie behind the elements, any int
Garbage == (0 - 2147483647 - 1) .. 2147483647

\* ------------------------------------------------------------ thread names
\* the largest worker count of any call: hardware_concurrency() is at most
\* MaxT, and the drivers replace 0 by their defaults
MaxWorkers ==
    IF MaxT >= DefaultWorkloadThreads THEN MaxT
    ELSE IF DefaultWorkloadThreads >= DefaultThreads THEN DefaultWorkloadThreads
    ELSE DefaultThreads

\* worker threads are 0 .. numThreads-1 (the index of the spawn loops)
Workers == 0 .. (MaxWorkers - 1)
Caller == MaxWorkers
Submitter == MaxWorkers + 1
NoThread == MaxWorkers + 2

TaskIds == 0 .. ((IF MaxWorkers > MaxTasks THEN MaxWorkers ELSE MaxTasks) - 1)

VARIABLES
    maxThreads,        \* std::thread::hardware_concurrency()
    strategy,          \* which entry point the driver calls
    data,              \* const std::vector<int>& data
    numThreads,        \* unsigned int numThreads
    order,             \* std::memory_order of atomic_sum's fetch_add
    total,             \* std::atomic<long long> total
    partialSums,       \* std::vector<long long> partialSums
    pc,                \* position of each worker thread
    cur,               \* each worker's bound arguments / current task
    idx,               \* each worker's loop variable
    localSum,          \* each worker's local accumulator
    cpc,               \* position of the calling thread
    ci,                \* the caller's loop variable
    run,               \* which call of the driver this is
    sums,              \* the sum each finished call left in its accumulator
    tasks,             \* ThreadPool::tasks
    stop,              \* ThreadPool::stop
    queueMutex,        \* holder of ThreadPool::queueMutex
    condition,         \* workers blocked in ThreadPool::condition.wait
    completed_tasks,   \* std::atomic<int> completed_tasks
    completion_mutex,  \* holder of completion_mutex
    completion_cv,     \* TRUE while the caller is blocked in completion_cv.wait
    barrierAlive,      \* the barrier locals of threadpool_sum still exist
    danglingAccess,    \* a task touched a destroyed barrier object
    spc,               \* position of the submitting thread (pool client)
    nextId,            \* next task the submitting thread will enqueue
    accepted,          \* ids pushed into the queue, in push order
    rejected,          \* ids whose enqueue threw
    dequeued,          \* ids popped from the queue, in pop order
    executed,          \* how many times each task was invoked
    adds,              \* number of fetch_add operations performed on total
    chunks,            \* chunks produced so far by a spawn loop
    oobRead            \* a worker read data[] outside [0, data.size())

vars == << maxThreads, strategy, data, numThreads, order, total, partialSums, pc, cur, idx,
           localSum, cpc, ci, run, sums, tasks, stop, queueMutex, condition,
           completed_tasks, completion_mutex, completion_cv, barrierAlive,
           danglingAccess, spc, nextId, accepted, rejected, dequeued, executed,
           adds, chunks, oobRead >>

inputVars == << maxThreads, strategy, data, numThreads, order >>
accVars == << total, partialSums, adds >>
workerVars == << pc, cur, idx, localSum >>
callerVars == << cpc, ci >>
runVars == << run, sums >>
poolVars == << tasks, stop, queueMutex, condition >>
barrierVars == << completed_tasks, completion_mutex, completion_cv,
                  barrierAlive, danglingAccess >>
clientVars == << spc, nextId >>
logVars == << accepted, rejected, dequeued, executed >>

\* ----------------------------------------------------------------- helpers
\* long long.  The sums of the workload vectors do not fit the 32-bit
\* integers of the model checker: a long long v is kept as << hi, lo >> with
\* v = hi * Base + lo and 0 <= lo < Base, one pair per value.
Base == 10000 * 10000

\* the long long of an int
LL(v) == << v \div Base, v % Base >>

Zero == LL(0)

\* a + b
LLAdd(a, b) ==
    << a[1] + b[1] + ((a[2] + b[2]) \div Base), (a[2] + b[2]) % Base >>

\* -a
LLNeg(a) ==
    IF a[2] = 0 THEN << 0 - a[1], 0 >> ELSE << 0 - a[1] - 1, Base - a[2] >>

\* x * y for naturals x and y of at most nine digits, by halves of four digits
LLMul(x, y) ==
    LET h == 10000
        x1 == x \div h
        x0 == x % h
        y1 == y \div h
        y0 == y % h
        cross == x1 * y0 + x0 * y1
        low == (cross % h) * h + x0 * y0
    IN  << x1 * y1 + (cross \div h) + (low \div Base), low % Base >>

\* const std::vector<int>& data.  Every vector the program sums is filled by
\* std::iota(begin, end, 1): element i (from 0) is i + 1.  The strategies
\* are also followed on the same vectors with every element negated (int is
\* signed).  A vector is kept as its size and this sign; the vectors of
\* benchmark_workload_scaling have up to 100000000 elements.
\* std::iota(data.begin(), data.end(), 1)
Iota(n) == [size |-> n, negated |-> FALSE]

\* the same vector with every element negated
Negated(d) == [size |-> d.size, negated |-> d.size > 0 /\ ~d.negated]

\* data.size()
Size(d) == d.size

\* data[i] for an index inside the vector
At(d, i) == IF d.negated THEN 0 - (i + 1) ELSE i + 1

\* the value of s after  for (i = lo; i < hi; ++i) s += data[i];  started at
\* s = 0 with hi <= data.size(): the elements are consecutive, so the loop
\* adds (hi - lo) * (lo + 1 + hi) / 2, or its negative
SumRange(d, lo, hi) ==
    LET count == hi - lo
        ends == lo + 1 + hi
        magnitude == IF count % 2 = 0 THEN LLMul(count \div 2, ends)
                     ELSE LLMul(count, ends \div 2)
    IN  IF lo >= hi THEN Zero
        ELSE IF d.negated THEN LLNeg(magnitude) ELSE magnitude

RECURSIVE SumSeq(_)
\* for (auto sum : partialSums) reduceResult += sum;
SumSeq(s) == IF s = << >> THEN Zero ELSE LLAdd(Head(s), SumSeq(Tail(s)))

\* the input vectors of length at most n
Inputs(n) == {Iota(k) : k \in 0 .. n} \cup {Negated(Iota(k)) : k \in 0 .. n}

\* single_thread_sum: result = 0; for (int value : data) result += value;
single_thread_sum(d) == SumRange(d, 0, Size(d))

\* ------------------------------------------------------------- partitioner
\* size_t chunk = data.size() / numThreads;
ChunkSize(n, t) == n \div t

\* faulty variant: an evenly spread start, against the fixed chunk width
ChunkStartBalanced(i, n, t) == (i * n) \div t
\* size_t start = i * chunk;
ChunkStart(i, n, t) == i * ChunkSize(n, t)

\* faulty variant: the last chunk runs one element past the end
ChunkEndOvershoot(i, n, t) ==
    IF i = t - 1 THEN n + 1 ELSE ChunkStart(i, n, t) + ChunkSize(n, t)
\* faulty variant: the last chunk does not absorb the remainder
ChunkEndNoRemainder(i, n, t) == ChunkStart(i, n, t) + ChunkSize(n, t)
\* size_t end = (i == numThreads - 1) ? data.size() : start + chunk;
ChunkEnd(i, n, t) ==
    IF i = t - 1 THEN n ELSE ChunkStart(i, n, t) + ChunkSize(n, t)

Chunk(i, n, t) == [id |-> i, start |-> ChunkStart(i, n, t), end |-> ChunkEnd(i, n, t)]

NoChunk == [id |-> 0, start |-> 0, end |-> 0]

\* data[i] of the worker lambdas; an index past the end is an out-of-range
\* read of the vector: it is undefined, and either faults (ReadFaults) or
\* yields what lies behind the elements
DataAt(d, i) == IF i < Size(d) THEN {At(d, i)} ELSE Garbage

\* whether the read of data[i] may end the process with a segmentation fault
ReadFaults(d, i) == IF i < Size(d) THEN {FALSE} ELSE {FALSE, TRUE}

\* where the part of [i, e) that lies inside the vector ends
InsideEnd(d, e) == IF e < Size(d) THEN e ELSE Size(d)

\* One step of a summation loop at index i < e.  At an index inside the
\* vector the step runs every iteration up to the end of the chunk or of
\* the vector; past the end of the vector it is the single read of data[i].
\* LoopNext is the index after the step, LoopAdds what the step may add.
LoopNext(d, i, e) == IF i < Size(d) THEN InsideEnd(d, e) ELSE i + 1

LoopAdds(d, i, e) ==
    IF i < Size(d) THEN {SumRange(d, i, InsideEnd(d, e))}
    ELSE {LL(v) : v \in DataAt(d, i)}

\* ------------------------------------------------ state of one invocation
\* The state in which the driver enters a strategy: fresh zeroed
\* accumulators (std::atomic<long long> total(0); partialSums(numThreads, 0))
\* and no thread created yet.
Fresh(strat, t) ==
    [ total |-> Zero,
      partialSums |-> IF strat = "reduce" THEN [k \in 1 .. t |-> Zero] ELSE << >>,
      pc |-> [w \in Workers |-> "unborn"],
      cur |-> [w \in Workers |-> NoChunk],
      idx |-> [w \in Workers |-> 0],
      localSum |-> [w \in Workers |-> Zero],
      cpc |-> IF strat \in {"pool", "client"} THEN "construct" ELSE "spawn",
      executed |-> [k \in TaskIds |-> 0] ]

InitInvocation ==
    /\ total = Fresh(strategy, numThreads).total
    /\ partialSums = Fresh(strategy, numThreads).partialSums
    /\ pc = Fresh(strategy, numThreads).pc
    /\ cur = Fresh(strategy, numThreads).cur
    /\ idx = Fresh(strategy, numThreads).idx
    /\ localSum = Fresh(strategy, numThreads).localSum
    /\ cpc = Fresh(strategy, numThreads).cpc
    /\ executed = Fresh(strategy, numThreads).executed
    /\ ci = 0
    /\ adds = 0
    /\ tasks = << >>
    /\ stop = FALSE
    /\ queueMutex = NoThread
    /\ condition = {}
    /\ completed_tasks = 0
    /\ completion_mutex = NoThread
    /\ completion_cv = FALSE
    /\ barrierAlive = TRUE
    /\ danglingAccess = FALSE
    /\ spc = "idle"
    /\ nextId = 0
    /\ accepted = << >>
    /\ rejected = {}
    /\ dequeued = << >>
    /\ chunks = << >>
    /\ oobRead = FALSE

\* ------------------------------------------------------------- the driver
\* main: numThreads = hardware_concurrency(); if (numThreads == 0) numThreads = 2;
MainThreads(hw) == IF hw = 0 THEN DefaultThreads ELSE hw

\* main: atomic_sum once per memory order, then reduce_sum, then
\* threadpool_sum, all on the same data and worker count
MainCalls(t, d) ==
    << [strategy |-> "atomic", order |-> "relaxed", numThreads |-> t,
        data |-> d],
       [strategy |-> "atomic", order |-> "seq_cst", numThreads |-> t,
        data |-> d],
       [strategy |-> "reduce", order |-> "relaxed", numThreads |-> t,
        data |-> d],
       [strategy |-> "pool", order |-> "relaxed", numThreads |-> t,
        data |-> d] >>

\* benchmark_thread_scaling: threadCounts, plus maxThreads when it exceeds
\* 16, without the counts above maxThreads
ScalingCounts(hw) ==
    SelectSeq(IF hw > 16 THEN Append(threadCounts, hw) ELSE threadCounts,
              LAMBDA t : ~(t > hw /\ t # hw))

RECURSIVE ScalingCalls(_, _)
\* benchmark_thread_scaling: for each count atomic_sum (relaxed), reduce_sum
\* and threadpool_sum on main's data
ScalingCalls(ts, d) ==
    IF ts = << >> THEN << >>
    ELSE << [strategy |-> "atomic", order |-> "relaxed", numThreads |-> Head(ts),
             data |-> d],
            [strategy |-> "reduce", order |-> "relaxed", numThreads |-> Head(ts),
             data |-> d],
            [strategy |-> "pool", order |-> "relaxed", numThreads |-> Head(ts),
             data |-> d] >>
           \o ScalingCalls(Tail(ts), d)

\* benchmark_workload_scaling: numThreads = hardware_concurrency();
\* if (numThreads == 0) numThreads = 4;
WorkloadThreads(hw) == IF hw = 0 THEN DefaultWorkloadThreads ELSE hw

\* std::vector<int> testData(dataSize); std::iota(testData.begin(), testData.end(), 1);
TestData(n) == Iota(n)

RECURSIVE WorkloadCalls(_, _)
\* benchmark_workload_scaling: for the workload sizes from the k-th on,
\* atomic_sum (relaxed) and threadpool_sum on a vector built for that size
WorkloadCalls(k, t) ==
    IF k > Len(workloadSizes) THEN << >>
    ELSE << [strategy |-> "atomic", order |-> "relaxed", numThreads |-> t,
             data |-> TestData(workloadSizes[k])],
            [strategy |-> "pool", order |-> "relaxed", numThreads |-> t,
             data |-> TestData(workloadSizes[k])] >>
           \o WorkloadCalls(k + 1, t)

\* the calls main makes, in order: its own on the vector d, then those of
\* benchmark_thread_scaling(d), then those of benchmark_workload_scaling()
Schedule(hw, d) ==
    MainCalls(MainThreads(hw), d)
      \o ScalingCalls(ScalingCounts(hw), d)
      \o WorkloadCalls(1, WorkloadThreads(hw))

\* main up to its first call: atomic_sum under relaxed order, on a system
\* that reports 1 .. MaxT hardware threads
Init ==
    /\ maxThreads \in 1 .. MaxT
    /\ data \in Inputs(MaxN)
    /\ strategy = Schedule(maxThreads, data)[1].strategy
    /\ order = Schedule(maxThreads, data)[1].order
    /\ numThreads = Schedule(maxThreads, data)[1].numThreads
    /\ run = 1
    /\ sums = << >>
    /\ InitInvocation

\* ------------------------------------------------------------ raw threads
\* faulty variant: join does not wait for the thread
ThreadFinishedAlways(p) == TRUE
\* t.join() returns once the thread's function has returned
ThreadFinished(p) == p \in {"done", "exited"}

\* faulty variant: a store in place of the read-modify-write
FetchAddOverwrites(old, v, ord) == v
\* total.fetch_add(localSum, order): an atomic read-modify-write; it acts on
\* the latest value in the modification order of total under every order
FetchAdd(old, v, ord) == LLAdd(old, v)

\* faulty variant: the loop runs one iteration too many
LoopContinuesInclusive(i, t) == i <= t
\* the condition of the creation loops: i < numThreads
LoopContinues(i, t) == i < t

\* for (i = 0; i < numThreads; ++i) threads.emplace_back(worker, [i,] start, end);
Spawn ==
    /\ strategy \in {"atomic", "reduce"}
    /\ cpc = "spawn"
    /\ LoopContinues(ci, numThreads)
    /\ LET c == Chunk(ci, Size(data), numThreads) IN
         /\ pc' = [pc EXCEPT ![ci] = "sum"]
         /\ cur' = [cur EXCEPT ![ci] = c]
         /\ idx' = [idx EXCEPT ![ci] = c.start]
         /\ localSum' = [localSum EXCEPT ![ci] = Zero]
         /\ chunks' = Append(chunks, << c.start, c.end >>)
    /\ ci' = IF LoopContinues(ci + 1, numThreads) THEN ci + 1 ELSE 0
    /\ cpc' = IF LoopContinues(ci + 1, numThreads) THEN "spawn" ELSE "join"
    /\ UNCHANGED << inputVars, accVars, runVars, poolVars, barrierVars,
                    clientVars, logVars, oobRead >>

\* a read of data[] faulted: the process is killed by the signal
Segfault ==
    /\ pc' = [x \in Workers |-> "killed"]
    /\ cpc' = "trapped"
    /\ oobRead' = TRUE
    /\ UNCHANGED << inputVars, accVars, cur, idx, localSum, ci, runVars,
                    poolVars, barrierVars, clientVars, logVars, chunks >>

\* atomic_sum worker: for (i = start; i < end; ++i) localSum += data[i];
AtomicAccumulate(w) ==
    /\ strategy = "atomic"
    /\ pc[w] = "sum"
    /\ idx[w] < cur[w].end
    /\ \E fault \in ReadFaults(data, idx[w]) :
         IF fault THEN Segfault
         ELSE /\ \E v \in LoopAdds(data, idx[w], cur[w].end) :
                   localSum' = [localSum EXCEPT ![w] = LLAdd(@, v)]
              /\ oobRead' = (oobRead \/ idx[w] >= Size(data))
              /\ idx' = [idx EXCEPT ![w] = LoopNext(data, @, cur[w].end)]
              /\ UNCHANGED << inputVars, accVars, pc, cur, callerVars, runVars,
                              poolVars, barrierVars, clientVars, logVars, chunks >>

\* atomic_sum worker: total.fetch_add(localSum, order); then the thread ends
AtomicFetchAdd(w) ==
    /\ strategy = "atomic"
    /\ pc[w] = "sum"
    /\ idx[w] >= cur[w].end
    /\ total' = FetchAdd(total, localSum[w], order)
    /\ adds' = adds + 1
    /\ pc' = [pc EXCEPT ![w] = "done"]
    /\ UNCHANGED << inputVars, partialSums, cur, idx, localSum, callerVars,
                    runVars, poolVars, barrierVars, clientVars, logVars,
                    chunks, oobRead >>

\* faulty variant: every worker writes the first slot
SlotZero(tid) == 1
\* partialSums[tid]: the slot of worker tid (sequences are 1-based)
Slot(tid) == tid + 1

\* reduce_sum worker: for (i = start; i < end; ++i) partialSums[tid] += data[i];
ReduceAccumulate(w) ==
    /\ strategy = "reduce"
    /\ pc[w] = "sum"
    /\ idx[w] < cur[w].end
    /\ \E fault \in ReadFaults(data, idx[w]) :
         IF fault THEN Segfault
         ELSE /\ \E v \in LoopAdds(data, idx[w], cur[w].end) :
                   partialSums' = [partialSums EXCEPT ![Slot(cur[w].id)] = LLAdd(@, v)]
              /\ oobRead' = (oobRead \/ idx[w] >= Size(data))
              /\ idx' = [idx EXCEPT ![w] = LoopNext(data, @, cur[w].end)]
              /\ UNCHANGED << inputVars, total, adds, pc, cur, localSum,
                              callerVars, runVars, poolVars, barrierVars,
                              clientVars, logVars, chunks >>

\* reduce_sum worker: the loop ends and the thread with it
ReduceFinish(w) ==
    /\ strategy = "reduce"
    /\ pc[w] = "sum"
    /\ idx[w] >= cur[w].end
    /\ pc' = [pc EXCEPT ![w] = "done"]
    /\ UNCHANGED << inputVars, accVars, cur, idx, localSum, callerVars, runVars,
                    poolVars, barrierVars, clientVars, logVars, chunks, oobRead >>

\* for (auto& t : threads) t.join(); then the function returns
Join ==
    /\ strategy \in {"atomic", "reduce"}
    /\ cpc = "join"
    /\ ci < numThreads
    /\ ThreadFinished(pc[ci])
    /\ ci' = ci + 1
    /\ cpc' = IF ci + 1 = numThreads THEN "returned" ELSE "join"
    /\ UNCHANGED << inputVars, accVars, workerVars, runVars, poolVars,
                    barrierVars, clientVars, logVars, chunks, oobRead >>

\* the call has returned and its accumulator holds the result: total, or
\* the sum over partialSums.  main reads and prints it;
\* benchmark_thread_scaling leaves it in atomicTotal, partialSums, poolTotal.
ReadResult ==
    /\ cpc = "returned"
    /\ strategy \in {"atomic", "reduce", "pool"}
    /\ sums' = Append(sums,
                      [strategy |-> strategy, numThreads |-> numThreads,
                       data |-> data,
                       sum |-> IF strategy = "reduce" THEN SumSeq(partialSums)
                               ELSE total])
    /\ cpc' = "reported"
    /\ UNCHANGED << inputVars, accVars, workerVars, ci, run, poolVars,
                    barrierVars, clientVars, logVars, chunks, oobRead >>

\* the driver makes its next call, with fresh accumulators
Rerun ==
    /\ cpc = "reported"
    /\ run < Len(Schedule(maxThreads, data))
    /\ run' = run + 1
    /\ strategy' = Schedule(maxThreads, data)[run + 1].strategy
    /\ order' = Schedule(maxThreads, data)[run + 1].order
    /\ numThreads' = Schedule(maxThreads, data)[run + 1].numThreads
    /\ data' = Schedule(maxThreads, data)[run + 1].data
    /\ total' = Fresh(strategy', numThreads').total
    /\ partialSums' = Fresh(strategy', numThreads').partialSums
    /\ pc' = Fresh(strategy', numThreads').pc
    /\ cur' = Fresh(strategy', numThreads').cur
    /\ idx' = Fresh(strategy', numThreads').idx
    /\ localSum' = Fresh(strategy', numThreads').localSum
    /\ cpc' = Fresh(strategy', numThreads').cpc
    /\ executed' = Fresh(strategy', numThreads').executed
    /\ ci' = 0
    /\ adds' = 0
    /\ tasks' = << >>
    /\ stop' = FALSE
    /\ queueMutex' = NoThread
    /\ condition' = {}
    /\ completed_tasks' = 0
    /\ completion_mutex' = NoThread
    /\ completion_cv' = FALSE
    /\ barrierAlive' = TRUE
    /\ danglingAccess' = FALSE
    /\ accepted' = << >>
    /\ rejected' = {}
    /\ dequeued' = << >>
    /\ chunks' = << >>
    /\ oobRead' = FALSE
    /\ UNCHANGED << maxThreads, sums, clientVars >>

\* -------------------------------------------------------------- ThreadPool
\* faulty variant: a lock that never blocks
MutexFreeAlways(m) == TRUE
\* std::mutex: a lock is acquired only while no thread holds the mutex
MutexFree(m) == m = NoThread

\* std::queue: front() and pop() act on the oldest element
\* faulty variant: the newest element is taken
QueueBack(q) == q[Len(q)]
QueueFront(q) == Head(q)

QueuePop(q) == Tail(q)

\* condition.wait predicate: this->stop || !this->tasks.empty()
WaitPredicate(s, q) == s \/ q # << >>

\* if (this->stop && this->tasks.empty()) return;
WorkerShouldExit(s, q) == s /\ q = << >>

\* faulty variant: enqueue does not look at stop
EnqueueNeverThrows(s) == FALSE
\* if (stop) throw std::runtime_error("enqueue on stopped ThreadPool");
EnqueueThrows(s) == s

\* the closure threadpool_sum submits for chunk i / an opaque client task
OpaqueTask(k) == [id |-> k, start |-> 0, end |-> 0]

\* ThreadPool(numThreads): for (i = 0; i < numThreads; ++i) workers.emplace_back(loop)
\* with numThreads = 0 the loop body never runs and the pool has no worker
Construct ==
    /\ strategy \in {"pool", "client"}
    /\ cpc = "construct"
    /\ LoopContinues(ci, numThreads) \/ strategy = "client"
    /\ pc' = IF LoopContinues(ci, numThreads)
             THEN [pc EXCEPT ![ci] = "lock"] ELSE pc
    /\ ci' = IF LoopContinues(ci + 1, numThreads) THEN ci + 1 ELSE 0
    /\ cpc' = IF LoopContinues(ci + 1, numThreads) THEN "construct"
              ELSE IF strategy = "pool" THEN "enq_lock" ELSE "hold"
    /\ UNCHANGED << inputVars, accVars, cur, idx, localSum, runVars, poolVars,
                    barrierVars, clientVars, logVars, chunks, oobRead >>

\* worker loop: std::unique_lock<std::mutex> lock(this->queueMutex);
WorkerLock(w) ==
    /\ pc[w] = "lock"
    /\ MutexFree(queueMutex)
    /\ queueMutex' = w
    /\ pc' = [pc EXCEPT ![w] = "check"]
    /\ UNCHANGED << inputVars, accVars, cur, idx, localSum, callerVars, runVars,
                    tasks, stop, condition, barrierVars, clientVars, logVars,
                    chunks, oobRead >>

\* condition.wait: the predicate is false, so the lock is released and the
\* worker blocks on the condition variable
WorkerWait(w) ==
    /\ pc[w] = "check"
    /\ queueMutex = w
    /\ ~WaitPredicate(stop, tasks)
    /\ queueMutex' = NoThread
    /\ condition' = condition \cup {w}
    /\ pc' = [pc EXCEPT ![w] = "waiting"]
    /\ UNCHANGED << inputVars, accVars, cur, idx, localSum, callerVars, runVars,
                    tasks, stop, barrierVars, clientVars, logVars, chunks, oobRead >>

\* a notified (or spuriously woken) worker re-acquires the lock inside wait
WorkerWake(w) ==
    /\ pc[w] = "waiting"
    /\ w \notin condition
    /\ MutexFree(queueMutex)
    /\ queueMutex' = w
    /\ pc' = [pc EXCEPT ![w] = "check"]
    /\ UNCHANGED << inputVars, accVars, cur, idx, localSum, callerVars, runVars,
                    tasks, stop, condition, barrierVars, clientVars, logVars,
                    chunks, oobRead >>

\* std::condition_variable::wait may return without a notification
SpuriousWakeup(w) ==
    /\ w \in condition
    /\ condition' = condition \ {w}
    /\ UNCHANGED << inputVars, accVars, workerVars, callerVars, runVars, tasks,
                    stop, queueMutex, barrierVars, clientVars, logVars, chunks,
                    oobRead >>

\* if (this->stop && this->tasks.empty()) return;   (the lock is released)
WorkerExit(w) ==
    /\ pc[w] = "check"
    /\ queueMutex = w
    /\ WaitPredicate(stop, tasks)
    /\ WorkerShouldExit(stop, tasks)
    /\ queueMutex' = NoThread
    /\ pc' = [pc EXCEPT ![w] = "exited"]
    /\ UNCHANGED << inputVars, accVars, cur, idx, localSum, callerVars, runVars,
                    tasks, stop, condition, barrierVars, clientVars, logVars,
                    chunks, oobRead >>

\* task = std::move(this->tasks.front()); this->tasks.pop();   (lock released)
WorkerDequeue(w) ==
    /\ pc[w] = "check"
    /\ queueMutex = w
    /\ WaitPredicate(stop, tasks)
    /\ ~WorkerShouldExit(stop, tasks)
    /\ tasks # << >>
    /\ cur' = [cur EXCEPT ![w] = QueueFront(tasks)]
    /\ tasks' = QueuePop(tasks)
    /\ dequeued' = Append(dequeued, QueueFront(tasks).id)
    /\ queueMutex' = NoThread
    /\ pc' = [pc EXCEPT ![w] = "call"]
    /\ UNCHANGED << inputVars, accVars, idx, localSum, callerVars, runVars,
                    stop, condition, barrierVars, clientVars, accepted, rejected,
                    executed, chunks, oobRead >>

\* task();   the closure starts: long long localSum = 0; j = start
WorkerCall(w) ==
    /\ pc[w] = "call"
    /\ executed' = [executed EXCEPT ![cur[w].id] = @ + 1]
    /\ pc' = [pc EXCEPT ![w] = IF strategy = "pool" THEN "sum" ELSE "running"]
    /\ idx' = [idx EXCEPT ![w] = cur[w].start]
    /\ localSum' = [localSum EXCEPT ![w] = Zero]
    /\ UNCHANGED << inputVars, accVars, cur, callerVars, runVars, poolVars,
                    barrierVars, clientVars, accepted, rejected, dequeued,
                    chunks, oobRead >>

\* an opaque client task returns; the worker goes back to the top of its loop
TaskReturn(w) ==
    /\ strategy = "client"
    /\ pc[w] = "running"
    /\ pc' = [pc EXCEPT ![w] = "lock"]
    /\ UNCHANGED << inputVars, accVars, cur, idx, localSum, callerVars, runVars,
                    poolVars, barrierVars, clientVars, logVars, chunks, oobRead >>

\* faulty variant: the notification is lost
NotifyNobody(waiting) == {waiting}
\* faulty variant: every waiting thread is unblocked
NotifyEverybody(waiting) == {{}}
\* condition.notify_one(): unblocks one of the threads waiting on the condition
NotifyOne(waiting) ==
    IF waiting = {} THEN {waiting} ELSE {waiting \ {w} : w \in waiting}

\* ----------------------------------------------------------- threadpool_sum
\* completion_cv.wait predicate: completed_tasks.load() >= numThreads
\* faulty variant: the wait ends at the first completion
BarrierPassedAtOne(c, t) == c >= 1
BarrierPassed(c, t) == c >= t

\* pool.enqueue(closure of chunk i): std::unique_lock<std::mutex> lock(queueMutex);
EnqueueLock ==
    /\ strategy = "pool"
    /\ cpc = "enq_lock"
    /\ MutexFree(queueMutex)
    /\ queueMutex' = Caller
    /\ cpc' = "enq_body"
    /\ UNCHANGED << inputVars, accVars, workerVars, ci, runVars, tasks, stop,
                    condition, barrierVars, clientVars, logVars, chunks, oobRead >>

\* if (stop) throw ...; tasks.emplace(f);   (lock released)
\* a throw leaves threadpool_sum: its locals are destroyed
EnqueueBody ==
    /\ strategy = "pool"
    /\ cpc = "enq_body"
    /\ queueMutex = Caller
    /\ LET c == Chunk(ci, Size(data), numThreads) IN
         IF EnqueueThrows(stop)
         THEN /\ rejected' = rejected \cup {c.id}
              /\ cpc' = "unwind"
              /\ UNCHANGED << tasks, accepted, chunks >>
         ELSE /\ tasks' = Append(tasks, c)
              /\ accepted' = Append(accepted, c.id)
              /\ chunks' = Append(chunks, << c.start, c.end >>)
              /\ cpc' = "enq_notify"
              /\ UNCHANGED rejected
    /\ queueMutex' = NoThread
    /\ UNCHANGED << inputVars, accVars, workerVars, ci, runVars, stop, condition,
                    barrierVars, clientVars, dequeued, executed, oobRead >>

\* condition.notify_one(); then the next iteration of the submit loop, or
\* std::unique_lock<std::mutex> lock(completion_mutex) after the last
EnqueueNotify ==
    /\ strategy = "pool"
    /\ cpc = "enq_notify"
    /\ condition' \in NotifyOne(condition)
    /\ ci' = ci + 1
    /\ cpc' = IF ci + 1 < numThreads THEN "enq_lock" ELSE "bar_lock"
    /\ UNCHANGED << inputVars, accVars, workerVars, runVars, tasks, stop,
                    queueMutex, barrierVars, clientVars, logVars, chunks, oobRead >>

\* task: for (j = start; j < end; ++j) localSum += data[j];
TaskAccumulate(w) ==
    /\ strategy = "pool"
    /\ pc[w] = "sum"
    /\ idx[w] < cur[w].end
    /\ \E fault \in ReadFaults(data, idx[w]) :
         IF fault THEN Segfault
         ELSE /\ \E v \in LoopAdds(data, idx[w], cur[w].end) :
                   localSum' = [localSum EXCEPT ![w] = LLAdd(@, v)]
              /\ oobRead' = (oobRead \/ idx[w] >= Size(data))
              /\ idx' = [idx EXCEPT ![w] = LoopNext(data, @, cur[w].end)]
              /\ UNCHANGED << inputVars, accVars, pc, cur, callerVars, runVars,
                              poolVars, barrierVars, clientVars, logVars, chunks >>

\* task: total.fetch_add(localSum, std::memory_order_relaxed);
TaskFetchAdd(w) ==
    /\ strategy = "pool"
    /\ pc[w] = "sum"
    /\ idx[w] >= cur[w].end
    /\ total' = FetchAdd(total, localSum[w], "relaxed")
    /\ adds' = adds + 1
    /\ pc' = [pc EXCEPT ![w] = "signal_lock"]
    /\ UNCHANGED << inputVars, partialSums, cur, idx, localSum, callerVars,
                    runVars, poolVars, barrierVars, clientVars, logVars, chunks,
                    oobRead >>

\* task: std::lock_guard<std::mutex> lock(completion_mutex);
TaskSignalLock(w) ==
    /\ pc[w] = "signal_lock"
    /\ MutexFree(completion_mutex)
    /\ completion_mutex' = w
    /\ danglingAccess' = (danglingAccess \/ ~barrierAlive)
    /\ pc' = [pc EXCEPT ![w] = "signal_inc"]
    /\ UNCHANGED << inputVars, accVars, cur, idx, localSum, callerVars, runVars,
                    poolVars, completed_tasks, completion_cv, barrierAlive,
                    clientVars, logVars, chunks, oobRead >>

\* task: completed_tasks.fetch_add(1);   (lock_guard released)
TaskSignalIncrement(w) ==
    /\ pc[w] = "signal_inc"
    /\ completion_mutex = w
    /\ completed_tasks' = completed_tasks + 1
    /\ completion_mutex' = NoThread
    /\ danglingAccess' = (danglingAccess \/ ~barrierAlive)
    /\ pc' = [pc EXCEPT ![w] = "signal_notify"]
    /\ UNCHANGED << inputVars, accVars, cur, idx, localSum, callerVars, runVars,
                    poolVars, completion_cv, barrierAlive, clientVars, logVars,
                    chunks, oobRead >>

\* task: completion_cv.notify_one(); the closure returns to the worker loop.
\* When the caller has already destroyed completion_cv the call acts on a
\* dead object (danglingAccess).  Its storage is still in the frame of
\* threadpool_sum, which lasts until ~ThreadPool has joined this worker, and
\* the only thread that ever waits on it has left the wait: the call finds
\* no waiter and returns.
TaskSignalNotify(w) ==
    /\ pc[w] = "signal_notify"
    /\ completion_cv' = FALSE
    /\ danglingAccess' = (danglingAccess \/ ~barrierAlive)
    /\ pc' = [pc EXCEPT ![w] = "lock"]
    /\ UNCHANGED << inputVars, accVars, cur, idx, localSum, callerVars, runVars,
                    poolVars, completed_tasks, completion_mutex, barrierAlive,
                    clientVars, logVars, chunks, oobRead >>

\* std::unique_lock<std::mutex> lock(completion_mutex);
BarrierLock ==
    /\ cpc = "bar_lock"
    /\ MutexFree(completion_mutex)
    /\ completion_mutex' = Caller
    /\ cpc' = "bar_check"
    /\ UNCHANGED << inputVars, accVars, workerVars, ci, runVars, poolVars,
                    completed_tasks, completion_cv, barrierAlive, danglingAccess,
                    clientVars, logVars, chunks, oobRead >>

\* completion_cv.wait(lock, pred): pred holds, wait returns
\* pred fails: the lock is released and the caller blocks
BarrierCheck ==
    /\ cpc = "bar_check"
    /\ completion_mutex = Caller
    /\ IF BarrierPassed(completed_tasks, numThreads)
       THEN /\ cpc' = "return"
            /\ UNCHANGED << completion_mutex, completion_cv >>
       ELSE /\ cpc' = "bar_wait"
            /\ completion_mutex' = NoThread
            /\ completion_cv' = TRUE
    /\ UNCHANGED << inputVars, accVars, workerVars, ci, runVars, poolVars,
                    completed_tasks, barrierAlive, danglingAccess, clientVars,
                    logVars, chunks, oobRead >>

\* the notified (or spuriously woken) caller re-acquires completion_mutex
BarrierWake ==
    /\ cpc = "bar_wait"
    /\ ~completion_cv
    /\ MutexFree(completion_mutex)
    /\ completion_mutex' = Caller
    /\ cpc' = "bar_check"
    /\ UNCHANGED << inputVars, accVars, workerVars, ci, runVars, poolVars,
                    completed_tasks, completion_cv, barrierAlive, danglingAccess,
                    clientVars, logVars, chunks, oobRead >>

\* completion_cv.wait may return without a notification
BarrierSpuriousWakeup ==
    /\ cpc = "bar_wait"
    /\ completion_cv
    /\ completion_cv' = FALSE
    /\ UNCHANGED << inputVars, accVars, workerVars, callerVars, runVars, poolVars,
                    completed_tasks, completion_mutex, barrierAlive,
                    danglingAccess, clientVars, logVars, chunks, oobRead >>

\* threadpool_sum leaves its body: the locals are destroyed in the reverse
\* order of their declaration, first lock, which releases completion_mutex;
\* the barrier objects still exist
ReturnFromSum ==
    /\ cpc \in {"return", "unwind"}
    /\ completion_mutex' = NoThread
    /\ cpc' = "destroy_barrier"
    /\ UNCHANGED << inputVars, accVars, workerVars, ci, runVars, poolVars,
                    completed_tasks, completion_cv, barrierAlive, danglingAccess,
                    clientVars, logVars, chunks, oobRead >>

\* then completion_cv, completion_mutex and completed_tasks are destroyed;
\* pool, declared first, is destroyed after them
DestroyBarrier ==
    /\ cpc = "destroy_barrier"
    /\ barrierAlive' = FALSE
    /\ cpc' = "dtor_lock"
    /\ UNCHANGED << inputVars, accVars, workerVars, ci, runVars, poolVars,
                    completed_tasks, completion_mutex, completion_cv,
                    danglingAccess, clientVars, logVars, chunks, oobRead >>

\* ~ThreadPool: std::unique_lock<std::mutex> lock(queueMutex);
DtorLock ==
    /\ cpc = "dtor_lock"
    /\ MutexFree(queueMutex)
    /\ queueMutex' = Caller
    /\ cpc' = "dtor_stop"
    /\ UNCHANGED << inputVars, accVars, workerVars, ci, runVars, tasks, stop,
                    condition, barrierVars, clientVars, logVars, chunks, oobRead >>

\* ~ThreadPool: stop = true;   (lock released)
DtorStop ==
    /\ cpc = "dtor_stop"
    /\ queueMutex = Caller
    /\ stop' = TRUE
    /\ queueMutex' = NoThread
    /\ cpc' = "dtor_notify"
    /\ UNCHANGED << inputVars, accVars, workerVars, ci, runVars, tasks,
                    condition, barrierVars, clientVars, logVars, chunks, oobRead >>

\* ~ThreadPool: condition.notify_all();
DtorNotifyAll ==
    /\ cpc = "dtor_notify"
    /\ condition' = {}
    /\ ci' = 0
    /\ cpc' = IF numThreads = 0 THEN "returned" ELSE "dtor_join"
    /\ UNCHANGED << inputVars, accVars, workerVars, runVars, tasks, stop,
                    queueMutex, barrierVars, clientVars, logVars, chunks, oobRead >>

\* ~ThreadPool: for (std::thread &worker : workers) worker.join();
DtorJoin ==
    /\ cpc = "dtor_join"
    /\ ci < numThreads
    /\ ThreadFinished(pc[ci])
    /\ ci' = ci + 1
    /\ cpc' = IF ci + 1 = numThreads THEN "returned" ELSE "dtor_join"
    /\ UNCHANGED << inputVars, accVars, workerVars, runVars, poolVars,
                    barrierVars, clientVars, logVars, chunks, oobRead >>

\* ------------------------------------------------------------- pool client
\* The owner of a pool lets it go out of scope at a time of its choosing.
OwnerDestroy ==
    /\ strategy = "client"
    /\ cpc = "hold"
    /\ cpc' = "dtor_lock"
    /\ UNCHANGED << inputVars, accVars, workerVars, ci, runVars, poolVars,
                    barrierVars, clientVars, logVars, chunks, oobRead >>

\* the pool object exists: constructed, destructor not yet returned
PoolAlive == cpc \in {"hold", "dtor_lock", "dtor_stop", "dtor_notify", "dtor_join"}

\* a client thread calls pool.enqueue(task nextId)
SubmitLock ==
    /\ strategy = "client"
    /\ spc = "idle"
    /\ nextId < MaxTasks
    /\ PoolAlive
    /\ MutexFree(queueMutex)
    /\ queueMutex' = Submitter
    /\ spc' = "enq_body"
    /\ UNCHANGED << inputVars, accVars, workerVars, callerVars, runVars, tasks,
                    stop, condition, barrierVars, nextId, logVars, chunks, oobRead >>

\* if (stop) throw ...; tasks.emplace(f);   (lock released)
SubmitBody ==
    /\ strategy = "client"
    /\ spc = "enq_body"
    /\ queueMutex = Submitter
    /\ IF EnqueueThrows(stop)
       THEN /\ rejected' = rejected \cup {nextId}
            /\ nextId' = nextId + 1
            /\ spc' = "idle"
            /\ UNCHANGED << tasks, accepted >>
       ELSE /\ tasks' = Append(tasks, OpaqueTask(nextId))
            /\ accepted' = Append(accepted, nextId)
            /\ spc' = "enq_notify"
            /\ UNCHANGED << rejected, nextId >>
    /\ queueMutex' = NoThread
    /\ UNCHANGED << inputVars, accVars, workerVars, callerVars, runVars, stop,
                    condition, barrierVars, dequeued, executed, chunks, oobRead >>

\* condition.notify_one(); enqueue returns
SubmitNotify ==
    /\ strategy = "client"
    /\ spc = "enq_notify"
    /\ condition' \in NotifyOne(condition)
    /\ nextId' = nextId + 1
    /\ spc' = "idle"
    /\ UNCHANGED << inputVars, accVars, workerVars, callerVars, runVars, tasks,
                    stop, queueMutex, barrierVars, logVars, chunks, oobRead >>

\* ---------------------------------------------------------- specifications
WorkerLoop(w) ==
    \/ WorkerLock(w)
    \/ WorkerWait(w)
    \/ WorkerWake(w)
    \/ SpuriousWakeup(w)
    \/ WorkerExit(w)
    \/ WorkerDequeue(w)
    \/ WorkerCall(w)

Destructor ==
    \/ DtorLock
    \/ DtorStop
    \/ DtorNotifyAll
    \/ DtorJoin

Next ==
    \/ Spawn
    \/ \E w \in Workers : AtomicAccumulate(w)
    \/ \E w \in Workers : AtomicFetchAdd(w)
    \/ \E w \in Workers : ReduceAccumulate(w)
    \/ \E w \in Workers : ReduceFinish(w)
    \/ Join
    \/ Construct
    \/ \E w \in Workers : WorkerLoop(w)
    \/ EnqueueLock
    \/ EnqueueBody
    \/ EnqueueNotify
    \/ \E w \in Workers : TaskAccumulate(w)
    \/ \E w \in Workers : TaskFetchAdd(w)
    \/ \E w \in Workers : TaskSignalLock(w)
    \/ \E w \in Workers : TaskSignalIncrement(w)
    \/ \E w \in Workers : TaskSignalNotify(w)
    \/ BarrierLock
    \/ BarrierCheck
    \/ BarrierWake
    \/ BarrierSpuriousWakeup
    \/ ReturnFromSum
    \/ DestroyBarrier
    \/ Destructor
    \/ ReadResult
    \/ Rerun

Spec == Init /\ [][Next]_vars

\* main on a system where hardware_concurrency() returns 0: main's own calls
\* run with DefaultThreads workers, benchmark_thread_scaling makes no call
\* and benchmark_workload_scaling runs with DefaultWorkloadThreads workers
InitDefaults ==
    /\ maxThreads = 0
    /\ data = Iota(MaxN)
    /\ strategy = Schedule(maxThreads, data)[1].strategy
    /\ order = Schedule(maxThreads, data)[1].order
    /\ numThreads = Schedule(maxThreads, data)[1].numThreads
    /\ run = 1
    /\ sums = << >>
    /\ InitInvocation

SpecDefaults == InitDefaults /\ [][Next]_vars

\* A pool used by a client: an owner that constructs and destroys it and a
\* thread that submits opaque tasks while the pool object exists.
InitPool ==
    /\ strategy = "client"
    /\ data = Iota(0)
    /\ numThreads \in 0 .. MaxT
    /\ maxThreads = numThreads
    /\ order = "relaxed"
    /\ run = 1
    /\ sums = << >>
    /\ InitInvocation

NextPool ==
    \/ Construct
    \/ \E w \in Workers : WorkerLoop(w)
    \/ \E w \in Workers : TaskReturn(w)
    \/ OwnerDestroy
    \/ SubmitLock
    \/ SubmitBody
    \/ SubmitNotify
    \/ Destructor

SpecPool == InitPool /\ [][NextPool]_vars

\* The chunk bounds alone, as a function of the index i, data.size() = n and
\* numThreads = t; no thread is created here.
InitPartition ==
    /\ strategy = "partition"
    /\ \E n \in 0 .. MaxPartN : data = Iota(n)
    /\ numThreads \in 1 .. MaxPartT
    /\ maxThreads = numThreads
    /\ order = "relaxed"
    /\ run = 1
    /\ sums = << >>
    /\ InitInvocation

\* the bounds for the next index: start = i * chunk;
\* end = (i == numThreads - 1) ? data.size() : start + chunk;
PartitionStep ==
    /\ strategy = "partition"
    /\ ci < numThreads
    /\ chunks' = Append(chunks, << ChunkStart(ci, Size(data), numThreads),
                                   ChunkEnd(ci, Size(data), numThreads) >>)
    /\ ci' = ci + 1
    /\ UNCHANGED << inputVars, accVars, workerVars, cpc, runVars, poolVars,
                    barrierVars, clientVars, logVars, oobRead >>

NextPartition == PartitionStep

SpecPartition == InitPartition /\ [][NextPartition]_vars

\* ------------------------------------------------------------------ claims
Range(q) == {q[k] : k \in 1 .. Len(q)}

LiveWorkers == 0 .. (numThreads - 1)

\* the calling thread has left the function it called
Returned == cpc \in {"returned", "reported"}

\* the caller of threadpool_sum has left completion_cv.wait
PastBarrier ==
    cpc \in {"return", "destroy_barrier", "dtor_lock", "dtor_stop", "dtor_notify", "dtor_join",
             "returned", "reported"}

\* C1: when atomic_sum (under either memory order) or threadpool_sum has
\* returned on a total that started at 0, total equals the sequential sum of
\* the data, whatever the worker count and the interleaving.
C1_TotalIsSequentialSum ==
    (strategy \in {"atomic", "pool"} /\ Returned)
        => total = single_thread_sum(data)

\* atomic_sum returned under relaxed order on a length that numThreads does
\* not divide, with more than one worker
C1_Witness ==
    /\ strategy = "atomic"
    /\ order = "relaxed"
    /\ cpc = "returned"
    /\ numThreads > 1
    /\ Size(data) % numThreads # 0
    /\ Size(data) > numThreads
    /\ total = single_thread_sum(data)
    /\ total # Zero

\* C2: the bounds computed for the indices 0 .. numThreads-1 are exactly
\* numThreads chunks, each a range start <= end, pairwise disjoint, ordered by
\* start, and their union is exactly [0, N); N = 10 and T = 3 give [0,3),
\* [3,6), [6,10).
C2_ChunksPartitionRange ==
    (strategy = "partition" /\ ci = numThreads) =>
        /\ Len(chunks) = numThreads
        /\ \A k \in 1 .. Len(chunks) : chunks[k][1] <= chunks[k][2]
        /\ \A j, k \in 1 .. Len(chunks) :
             j < k => /\ chunks[j][1] <= chunks[k][1]
                      /\ chunks[j][2] <= chunks[k][1]
        /\ UNION {chunks[k][1] .. (chunks[k][2] - 1) : k \in 1 .. Len(chunks)}
             = 0 .. (Size(data) - 1)
        /\ (Size(data) = 10 /\ numThreads = 3)
             => chunks = << << 0, 3 >>, << 3, 6 >>, << 6, 10 >> >>

\* the bounds of every index have been computed on N = 10, T = 3
C2_Witness ==
    /\ strategy = "partition"
    /\ ci = numThreads
    /\ Size(data) = 10
    /\ numThreads = 3
    /\ chunks = << << 0, 3 >>, << 3, 6 >>, << 6, 10 >> >>

\* C3: every task accepted by enqueue is executed exactly once: no task is
\* invoked twice or dequeued twice, only accepted tasks are invoked, and when
\* the destructor has returned every accepted task has been invoked and has
\* finished, and the queue is empty.
C3_ExecutedExactlyOnce ==
    /\ \A k \in TaskIds : executed[k] <= 1
    /\ \A j, k \in 1 .. Len(dequeued) : j # k => dequeued[j] # dequeued[k]
    /\ \A k \in TaskIds : executed[k] > 0 => k \in Range(accepted)
    /\ cpc = "returned" =>
         /\ tasks = << >>
         /\ \A k \in Range(accepted) : executed[k] = 1
         /\ \A w \in Workers : pc[w] \notin {"call", "running"}

\* C4: once stop is set it stays set, the queue only shrinks from its front,
\* every task leaving the queue is dequeued by a worker, a worker exits only
\* when stop is set and the queue is empty, and when the destructor returns
\* the queue is empty and every accepted task has been invoked.
C4_StopDrainsQueue ==
    [][ /\ stop => stop'
        /\ stop => (tasks' = tasks \/ (tasks # << >> /\ tasks' = Tail(tasks)))
        /\ (stop /\ tasks' # tasks) => dequeued' = Append(dequeued, Head(tasks).id)
        /\ \A w \in Workers :
             (pc[w] # "exited" /\ pc'[w] = "exited") => (stop /\ tasks = << >>)
        /\ (cpc # "returned" /\ cpc' = "returned") =>
             /\ tasks' = << >>
             /\ \A k \in Range(accepted') : executed'[k] = 1
      ]_vars

\* C5: when the ThreadPool destructor has returned, every one of the
\* numThreads workers has left its loop: none is live, none runs a task.
C5_NoWorkerOutlivesPool ==
    cpc = "returned" => \A w \in LiveWorkers : pc[w] = "exited"

\* the destructor returned on a two-worker pool that executed tasks
C5_Witness ==
    /\ cpc = "returned"
    /\ numThreads = 2
    /\ \A w \in LiveWorkers : pc[w] = "exited"
    /\ \E k \in TaskIds : executed[k] = 1

\* C6: an enqueue whose check finds stop set throws: the queue and the
\* accepted tasks are unchanged, the task is recorded as rejected, and a
\* rejected task is never queued, dequeued or invoked.
C6_EnqueueAfterStopThrows ==
    /\ [][ (spc = "enq_body" /\ spc' # "enq_body" /\ stop) =>
             /\ tasks' = tasks
             /\ accepted' = accepted
             /\ nextId \in rejected'
             /\ spc' = "idle"
         ]_vars
    /\ [](\A k \in rejected :
             /\ executed[k] = 0
             /\ k \notin Range(dequeued)
             /\ k \notin {tasks[j].id : j \in 1 .. Len(tasks)})

\* an enqueue was rejected after others were accepted, and the pool is gone
C6_Witness ==
    /\ rejected # {}
    /\ accepted # << >>
    /\ cpc = "returned"

\* C7: tasks leave the queue in the order their enqueue calls completed: the
\* dequeue order is a prefix of the acceptance order.
C7_DequeueOrderIsFifo ==
    /\ Len(dequeued) <= Len(accepted)
    /\ \A k \in 1 .. Len(dequeued) : dequeued[k] = accepted[k]

\* task 0 was dequeued before task 1, task 1 has already finished and task 0
\* is still running: completion order is not the dequeue order
C7_Witness ==
    /\ Len(dequeued) >= 2
    /\ dequeued[1] = 0
    /\ dequeued[2] = 1
    /\ executed[1] = 1
    /\ \E w \in Workers : pc[w] = "running" /\ cur[w].id = 0
    /\ \A w \in Workers : pc[w] \in {"call", "running"} => cur[w].id # 1

\* C8: the completion counter never exceeds numThreads nor the number of
\* atomic adds performed, and once the caller of threadpool_sum has left the
\* wait, the counter equals numThreads and all numThreads chunk sums are in
\* total.
C8_BarrierCountsAllTasks ==
    strategy = "pool" =>
        /\ completed_tasks <= numThreads
        /\ completed_tasks <= adds
        /\ PastBarrier =>
             /\ completed_tasks = numThreads
             /\ adds = numThreads
             /\ total = single_thread_sum(data)

\* the caller has just left the wait while a task has not yet notified
C8_Witness ==
    /\ strategy = "pool"
    /\ cpc = "return"
    /\ numThreads = 2
    /\ completed_tasks = 2
    /\ total # Zero
    /\ \E w \in Workers : pc[w] = "signal_notify"

\* C9: when reduce_sum has returned on zeroed slots, slot i holds the sum of
\* chunk i and the slots add up to the sequential sum, empty chunks included.
C9_SlotsHoldChunkSums ==
    (strategy = "reduce" /\ Returned) =>
        /\ Len(partialSums) = numThreads
        /\ \A i \in LiveWorkers :
             partialSums[i + 1] =
                 SumRange(data, ChunkStart(i, Size(data), numThreads),
                          ChunkEnd(i, Size(data), numThreads))
        /\ SumSeq(partialSums) = single_thread_sum(data)

\* reduce_sum returned with more workers than elements (an empty chunk)
C9_Witness ==
    /\ strategy = "reduce"
    /\ cpc = "returned"
    /\ numThreads > Size(data)
    /\ Size(data) > 0
    /\ partialSums[1] = Zero
    /\ SumSeq(partialSums) # Zero

\* C10: any two finished calls of the same strategy on the same data with
\* the same worker count left the same sum, whatever interleaving each of
\* them took.
C10_RepeatedRunsAgree ==
    \A j, k \in 1 .. Len(sums) :
        (sums[j].strategy = sums[k].strategy
           /\ sums[j].numThreads = sums[k].numThreads
           /\ sums[j].data = sums[k].data)
          => sums[j].sum = sums[k].sum

\* each of the three strategies has finished twice with two workers and a
\* non-zero sum
C10_Witness ==
    \A st \in {"atomic", "reduce", "pool"} :
        \E j, k \in 1 .. Len(sums) :
            /\ j < k
            /\ sums[j].strategy = st
            /\ sums[j].numThreads = 2
            /\ sums[k] = sums[j]
            /\ sums[j].sum # Zero

\* C11: with or without more workers than elements, no worker reads data
\* outside [0, N), the call does not end in an error, a chunk with
\* start = end contributes 0, and on an empty vector every strategy yields 0.
C11_DegenerateChunksAreSafe ==
    /\ ~oobRead
    /\ cpc # "unwind"
    /\ \A w \in Workers :
         (pc[w] = "sum" /\ idx[w] < cur[w].end) => cur[w].end <= Size(data)
    /\ \A w \in Workers :
         (pc[w] \in {"sum", "done", "signal_lock", "signal_inc", "signal_notify"}
            /\ cur[w].start = cur[w].end)
           => /\ localSum[w] = Zero
              /\ strategy = "reduce" => partialSums[cur[w].id + 1] = Zero
    /\ (Returned /\ Size(data) = 0) =>
         /\ total = Zero
         /\ SumSeq(partialSums) = Zero
         /\ \A k \in 1 .. Len(sums) : sums[k].sum = Zero

\* the pooled strategy returned with two workers on a one-element vector
C11_Witness ==
    /\ strategy = "pool"
    /\ cpc = "returned"
    /\ numThreads > Size(data)
    /\ Size(data) = 1
    /\ total = LL(At(data, 0))
    /\ chunks = << << 0, 0 >>, << 0, 1 >> >>

\* ------------------------------------------------------- worker count zero
\* size_t chunk = data.size() / numThreads;  with numThreads = 0 (in
\* threadpool_sum after ThreadPool pool(0) was built with no worker).
\* Integer division by zero is undefined: the build either traps (the
\* process dies on the fault) or the division yields some value, and then
\* every loop over 0 .. numThreads-1 runs zero times: the raw-thread
\* strategies return at once, threadpool_sum goes on to its wait.
ChunkDivisionByZero ==
    /\ numThreads = 0
    /\ cpc \in {"spawn", "construct"}
    /\ \/ cpc' = "trapped"
       \/ cpc' = IF strategy = "pool" THEN "bar_lock" ELSE "returned"
    /\ UNCHANGED << inputVars, accVars, workerVars, ci, runVars, poolVars,
                    barrierVars, clientVars, logVars, chunks, oobRead >>

\* a strategy is called with a worker count of zero
InitZero ==
    /\ strategy \in {"atomic", "reduce", "pool"}
    /\ data \in Inputs(MaxN)
    /\ numThreads = 0
    /\ maxThreads = 0
    /\ order \in IF strategy = "atomic" THEN {"relaxed", "seq_cst"} ELSE {"relaxed"}
    /\ run = 1
    /\ sums = << >>
    /\ InitInvocation

NextZero ==
    \/ ChunkDivisionByZero
    \/ BarrierLock
    \/ BarrierCheck
    \/ ReturnFromSum
    \/ DestroyBarrier
    \/ DtorLock
    \/ DtorStop
    \/ DtorNotifyAll
    \/ ReadResult

SpecZero == InitZero /\ [][NextZero]_vars

\* C12: a call with worker count zero ends in an explicit error to its
\* caller: it never traps on an undefined operation, never goes on into the
\* function body and never returns a sum.
C12_ZeroCountIsSignalled ==
    numThreads = 0 => cpc \in {"spawn", "construct", "threw"}

\* ------------------------------------------------- thread creation failure
\* what the exception thrown by the std::thread constructor leads to when i
\* threads were already created: the vector of threads is destroyed during
\* unwinding, and destroying a joinable std::thread calls std::terminate
CreationFailureOutcome(i) == IF i = 0 THEN "threw" ELSE "terminated"

\* threads.emplace_back(worker, ...) throws std::system_error in the spawn
\* loop of atomic_sum / reduce_sum; std::terminate ends every thread
SpawnFails ==
    /\ strategy \in {"atomic", "reduce"}
    /\ cpc = "spawn"
    /\ ci < numThreads
    /\ cpc' = CreationFailureOutcome(ci)
    /\ pc' = IF ci = 0 THEN pc ELSE [w \in Workers |-> "killed"]
    /\ UNCHANGED << inputVars, accVars, cur, idx, localSum, ci, runVars,
                    poolVars, barrierVars, clientVars, logVars, chunks, oobRead >>

\* workers.emplace_back(loop) throws in the ThreadPool constructor: the
\* members, workers among them, are destroyed (the destructor does not run)
ConstructFails ==
    /\ strategy = "pool"
    /\ cpc = "construct"
    /\ ci < numThreads
    /\ cpc' = CreationFailureOutcome(ci)
    /\ pc' = IF ci = 0 THEN pc ELSE [w \in Workers |-> "killed"]
    /\ queueMutex' = IF ci = 0 THEN queueMutex ELSE NoThread
    /\ condition' = IF ci = 0 THEN condition ELSE {}
    /\ UNCHANGED << inputVars, accVars, cur, idx, localSum, ci, runVars,
                    tasks, stop, barrierVars, clientVars, logVars, chunks,
                    oobRead >>

\* main and the benchmark functions have no try block: an exception that
\* leaves a strategy finds no handler and std::terminate ends the process
UnhandledException ==
    /\ cpc = "threw"
    /\ cpc' = "terminated"
    /\ pc' = [w \in Workers |-> "killed"]
    /\ UNCHANGED << inputVars, accVars, cur, idx, localSum, ci, runVars,
                    poolVars, barrierVars, clientVars, logVars, chunks, oobRead >>

NextCreateFail ==
    \/ Next
    \/ SpawnFails
    \/ ConstructFails
    \/ UnhandledException

\* the strategies on a system where creating a thread may fail
SpecCreateFail == Init /\ [][NextCreateFail]_vars

\* C13: a failed thread creation reaches the caller as an error: the call
\* never ends in std::terminate, and no sum is reported for it.
C13_CreationFailureReachesCaller ==
    /\ cpc # "terminated"
    /\ cpc = "threw" => Len(sums) = run - 1

\* ------------------------------------------------ threadpool_sum, scheduled
\* One call of threadpool_sum under a fair scheduler: a thread that can take
\* a step and stays able to eventually takes one.  Nothing is assumed of
\* std::mutex beyond that: a thread that finds the mutex taken again and
\* again may wait for ever.  A wait may return spuriously any number of
\* times, but not for ever.
InitPooled ==
    /\ strategy = "pool"
    /\ data \in Inputs(MaxN)
    /\ numThreads \in 1 .. MaxT
    /\ maxThreads = numThreads
    /\ order = "relaxed"
    /\ run = 1
    /\ sums = << >>
    /\ InitInvocation

\* the steps of worker w, the spurious return from its wait apart
WorkerProgress(w) ==
    \/ WorkerLock(w)
    \/ WorkerWait(w)
    \/ WorkerWake(w)
    \/ WorkerExit(w)
    \/ WorkerDequeue(w)
    \/ WorkerCall(w)
    \/ TaskAccumulate(w)
    \/ TaskFetchAdd(w)
    \/ TaskSignalLock(w)
    \/ TaskSignalIncrement(w)
    \/ TaskSignalNotify(w)

\* the steps of the calling thread, the spurious return from its wait apart
CallerProgress ==
    \/ Construct
    \/ EnqueueLock
    \/ EnqueueBody
    \/ EnqueueNotify
    \/ BarrierLock
    \/ BarrierCheck
    \/ BarrierWake
    \/ ReturnFromSum
    \/ DestroyBarrier
    \/ DtorLock
    \/ DtorStop
    \/ DtorNotifyAll
    \/ DtorJoin

\* a wait returns without a notification
SpuriousStep ==
    \/ \E w \in Workers : SpuriousWakeup(w)
    \/ BarrierSpuriousWakeup

NextPooled ==
    \/ \E w \in Workers : WorkerProgress(w)
    \/ CallerProgress
    \/ SpuriousStep

\* from some point on no wait returns spuriously
SpuriousWakeupsCease == <>[][~SpuriousStep]_vars

FairScheduling ==
    /\ WF_vars(CallerProgress)
    /\ \A w \in Workers : WF_vars(WorkerProgress(w))
    /\ SpuriousWakeupsCease

SpecPooledFair == InitPooled /\ [][NextPooled]_vars /\ FairScheduling

\* C14: under fair scheduling every call of threadpool_sum returns: all
\* numThreads tasks have been executed, the caller has left its wait and the
\* destructor has joined every worker.
C14_PooledSumReturns ==
    <>(/\ cpc = "returned"
       /\ \A k \in LiveWorkers : executed[k] = 1
       /\ \A w \in LiveWorkers : pc[w] = "exited")

\* the call on three elements and two workers has returned with the full sum
C14_Witness ==
    /\ cpc = "returned"
    /\ numThreads = 2
    /\ Size(data) = 3
    /\ \A k \in LiveWorkers : executed[k] = 1
    /\ total = single_thread_sum(data)

\* C15: every access of a task to completed_tasks, completion_mutex or
\* completion_cv happens while these locals of threadpool_sum still exist.
C15_BarrierOutlivesItsUsers ==
    ~danglingAccess

\* the threads that are inside a critical section of queueMutex
InQueueSection ==
    {w \in Workers : pc[w] = "check"}
        \cup (IF cpc \in {"enq_body", "dtor_stop"} THEN {Caller} ELSE {})
        \cup (IF spc = "enq_body" THEN {Submitter} ELSE {})

\* the positions at which a worker runs a task
Executing == {"call", "running", "sum", "signal_lock", "signal_inc", "signal_notify"}

\* C16: at most one thread is inside a critical section of queueMutex and it
\* is the holder of the mutex; a push happens in the enqueue of the holder, a
\* pop in the worker loop of the holder, stop is set by the holding
\* destructor; a worker that runs a task does not hold queueMutex.
C16_QueueChangesUnderMutex ==
    /\ [](/\ Cardinality(InQueueSection) <= 1
          /\ InQueueSection = IF queueMutex = NoThread THEN {} ELSE {queueMutex}
          /\ \A w \in Workers : pc[w] \in Executing => queueMutex # w)
    /\ [][ /\ Len(tasks') > Len(tasks) =>
                /\ queueMutex = Submitter
                /\ spc = "enq_body"
                /\ queueMutex' = NoThread
           /\ Len(tasks') < Len(tasks) =>
                /\ queueMutex \in Workers
                /\ pc[queueMutex] = "check"
                /\ pc'[queueMutex] = "call"
                /\ queueMutex' = NoThread
           /\ stop' # stop =>
                /\ queueMutex = Caller
                /\ cpc = "dtor_stop"
                /\ queueMutex' = NoThread
           /\ tasks' # tasks => Len(tasks') # Len(tasks)
         ]_vars

\* the submitting thread is inside enqueue with the mutex while one worker
\* waits for the lock and the other runs a task
C16_Witness ==
    /\ queueMutex = Submitter
    /\ spc = "enq_body"
    /\ tasks # << >>
    /\ \E w \in Workers : pc[w] = "lock"
    /\ \E w \in Workers : pc[w] = "running"

RECURSIVE MergedSum(_)
\* the chunk sums of the workers below k that have finished
MergedSum(k) ==
    IF k = 0 THEN Zero
    ELSE LLAdd(MergedSum(k - 1),
               IF pc[k - 1] = "done"
               THEN SumRange(data, cur[k - 1].start, cur[k - 1].end) ELSE Zero)

\* C17: in atomic_sum the number of atomic adds equals the number of
\* finished workers, total is the sum of their chunk sums, and once
\* atomic_sum has returned all numThreads workers have finished: exactly
\* numThreads adds, all before the return.
C17_OneAddPerWorker ==
    strategy = "atomic" =>
        /\ adds = Cardinality({w \in Workers : pc[w] = "done"})
        /\ adds <= numThreads
        /\ total = MergedSum(MaxWorkers)
        /\ Returned =>
             /\ adds = numThreads
             /\ \A w \in LiveWorkers : pc[w] = "done"

\* atomic_sum returned under seq_cst after two adds of non-zero chunk sums
C17_Witness ==
    /\ strategy = "atomic"
    /\ order = "seq_cst"
    /\ cpc = "returned"
    /\ numThreads = 2
    /\ adds = 2
    /\ \A w \in LiveWorkers : localSum[w] # Zero

\* the slots of partialSums that a step changes
SlotsWritten == {j \in 1 .. Len(partialSums) : partialSums'[j] # partialSums[j]}

\* C18: no step of any strategy changes the input sequence (only the driver's
\* next call may be on another vector); a step of
\* reduce_sum worker w changes no slot of partialSums other than slot w
\* (element w + 1 of the 1-based sequence) and leaves total alone, so no two
\* workers write the same slot.
C18_WorkerWritesOwnSlotOnly ==
    [][ /\ run' = run => data' = data
        /\ \A w \in Workers :
             (strategy = "reduce" /\ pc[w] = "sum" /\ idx'[w] # idx[w]) =>
                 /\ SlotsWritten \subseteq {w + 1}
                 /\ Len(partialSums') = Len(partialSums)
                 /\ total' = total
      ]_vars

\* both reduce_sum workers have run their loops, neither has ended yet, and
\* each has written
C18_Witness ==
    /\ strategy = "reduce"
    /\ numThreads = 2
    /\ \A w \in LiveWorkers : pc[w] = "sum" /\ idx[w] > cur[w].start
    /\ \A j \in 1 .. 2 : partialSums[j] # Zero

\* worker thread w has been created and has not ended
Alive(w) == pc[w] \notin {"unborn", "done", "exited", "killed"}

\* worker thread w is inside a chunk computation
Computing(w) == pc[w] \in {"sum", "signal_lock", "signal_inc", "signal_notify"}

\* C19: in one invocation with worker count numThreads no more than
\* numThreads threads are ever created (the workers beyond numThreads stay
\* unborn), no more than numThreads chunk computations are handed out or
\* run at once, and the pool of threadpool_sum has exactly numThreads live
\* workers from the end of its construction until its destructor sets stop.
C19_NoOversubscription ==
    /\ \A w \in Workers \ LiveWorkers : pc[w] = "unborn"
    /\ Cardinality({w \in Workers : Alive(w)}) <= numThreads
    /\ Cardinality({w \in Workers : Computing(w)}) <= numThreads
    /\ Len(chunks) <= numThreads
    /\ (strategy = "pool" /\ cpc # "construct" /\ ~stop) =>
           {w \in Workers : Alive(w)} = LiveWorkers

\* a pool of one worker, below the model's thread bound, is computing its
\* only chunk while the caller waits at the barrier
C19_Witness ==
    /\ strategy = "pool"
    /\ numThreads = 1
    /\ numThreads < MaxT
    /\ cpc = "bar_wait"
    /\ pc[0] = "sum"
    /\ Len(chunks) = 1
    /\ ~stop

\* C20: an enqueue that does not throw appends its task at the back of the
\* queue and goes on to notify_one; the notify_one step unblocks exactly one
\* of the workers blocked on the condition when there is one and none
\* otherwise, and every other blocked worker stays blocked.
C20_EnqueueWakesOneWorker ==
    [][ /\ (spc = "enq_body" /\ ~stop) =>
             (spc' = "enq_body" \/
                /\ spc' = "enq_notify"
                /\ tasks' = Append(tasks, OpaqueTask(nextId))
                /\ accepted' = Append(accepted, nextId)
                /\ condition' = condition)
        /\ (spc = "enq_notify" /\ spc' = "idle") =>
             /\ condition' \subseteq condition
             /\ Cardinality(condition \ condition') =
                  (IF condition = {} THEN 0 ELSE 1)
             /\ \A w \in Workers : pc'[w] = pc[w]
             /\ tasks' = tasks
      ]_vars

\* after the first enqueue returned, one of two blocked workers has been
\* unblocked and the other is still blocked, the task still queued
C20_Witness ==
    /\ strategy = "client"
    /\ numThreads = 2
    /\ spc = "idle"
    /\ nextId = 1
    /\ tasks = << OpaqueTask(0) >>
    /\ \A w \in LiveWorkers : pc[w] = "waiting"
    /\ Cardinality(condition) = 1

====
